---- MODULE Spec2Model ----
(***************************************************************************)
(* A model of deepshell's chat session engine (ChatSession, ChatHandler,   *)
(* src/deepshell/handlers/chat_handler.py) and of its completion client    *)
(* (DeepSeekClient, src/deepshell/llm.py).                                 *)
(*                                                                         *)
(* Strings are sequences of tokens: "abc" is <<"abc">>, the empty string   *)
(* is <<>>, and an f-string is the concatenation of its parts.             *)
(***************************************************************************)
EXTENDS Integers, Sequences, FiniteSets, TLC

\* ------------------------------------------------------------------ bounds
\* Largest configured CHAT_CACHE_LENGTH (max_length) the model tries.
MaxLengthBound == 3
\* Largest max_retries of a client called directly.
MaxRetriesBound == 3
\* Largest retry_delay (in whole time units) of a client called directly.
MaxDelayBound == 2
\* Largest MAX_RETRIES configured for the client of a chat process.
ChatRetriesBound == 1
\* retry_delay's default, the RETRY_DELAY of a chat process.
DefaultRetryDelay == 1
\* No new turn, handler or connection test starts once the clock reached this.
MaxClock == 3
\* Most add_message calls made on a session used directly.
MaxAdds == 3
\* Longest chunk sequence a streamed response delivers.
MaxChunks == 2

\* ------------------------------------------------------------------ values
SystemPrompt == <<"S">>
\* The prompts a user types: a word and a blank one.
Prompts == {<<"a">>, <<" ">>}
\* The messages of the transport exceptions the remote call raises.
TransportErrors == {"e1", "e2"}
\* The contents a remote response carries: a text and the empty string.
Contents == {<<"r">>, <<>>}
\* The text fragments a stream chunk carries.
Fragments == {<<"r">>, <<"s">>}
\* The function names a streamed tool call announces.
ToolNames == {"f"}

Min(a, b) == IF a < b THEN a ELSE b
Max(a, b) == IF a > b THEN a ELSE b

RECURSIVE Pow2(_)
\* 2 ** n
Pow2(n) == IF n = 0 THEN 1 ELSE 2 * Pow2(n - 1)

\* Python's s[start:] on a list.
PySliceFrom(s, start) ==
    LET n == Len(s)
        lo == IF start < 0 THEN Max(n + start, 0) ELSE Min(start, n)
    IN  SubSeq(s, lo + 1, n)

\* Python's str.strip() on a string of tokens: blanks are the " " tokens.
RECURSIVE LStrip(_)
LStrip(s) == IF s # <<>> /\ Head(s) = " " THEN LStrip(Tail(s)) ELSE s
RECURSIVE RStrip(_)
RStrip(s) ==
    IF s # <<>> /\ s[Len(s)] = " " THEN RStrip(SubSeq(s, 1, Len(s) - 1)) ELSE s
Strip(s) == RStrip(LStrip(s))

\* s is a contiguous part of t
Contains(t, s) ==
    \E i \in 1..(Len(t) + 1) :
        /\ i + Len(s) - 1 <= Len(t)
        /\ SubSeq(t, i, i + Len(s) - 1) = s

\* ------------------------------------------------------------------- state
VARIABLES
    session_id,      \* ChatSession.session_id
    max_length,      \* ChatSession.max_length (CHAT_CACHE_LENGTH)
    max_retries,     \* DeepSeekClient.max_retries
    retry_delay,     \* DeepSeekClient.retry_delay
    clock,           \* what time.time() returns next
    file,            \* the content of the session file
    disk,            \* the condition of the disk the session file is on
    io,              \* the last session operation and its calls on the disk
    pc,              \* where the process is
    messages,        \* ChatSession.messages
    messages_type,   \* the Python type of ChatSession.messages
    caller,          \* who called complete(): handle or test_connection
    stream,          \* the stream option of the call in progress
    attempt,         \* _retry_with_backoff's loop variable
    last_exception,  \* _retry_with_backoff's last_exception, as str() gives it
    outcomes,        \* history: what each remote call of the retry loop did
    sleeps,          \* the time.sleep() durations of the retry loop in progress
    result,          \* what _retry_with_backoff returned
    chunks,          \* the chunks read from the stream so far
    full_response,   \* the fragments the stream consumer has concatenated
    underlying,      \* the text the chunks read so far carry as delta.content
    tool_chunks,     \* how many of the chunks read so far announce a tool call
    stream_end,      \* how the generator of the streaming call ended
    payload,         \* the messages of the last request sent to complete()
    raised,          \* the exception the last operation let escape, or "none"
    console,         \* the last thing the handler reported
    test_result,     \* what test_connection() last returned
    pre_messages,    \* history: messages when the current handle() was called
    pre_file,        \* history: file when the current handle() was called
    procs,           \* two processes on one session id: where each is, its
                     \* ChatSession.messages and the record it is writing
    last_write       \* history: the record of the last write of the two

config_vars == <<session_id, max_length, max_retries, retry_delay>>
session_vars == <<messages, messages_type, file, clock, disk, io>>
call_vars == <<caller, stream, attempt, last_exception, outcomes, sleeps, result,
               chunks, full_response, underlying, tool_chunks, stream_end>>
hist_vars == <<pre_messages, pre_file>>
race_vars == <<procs, last_write>>
vars == <<session_id, max_length, max_retries, retry_delay, clock, file, disk,
          io, pc, messages, messages_type, caller, stream, attempt,
          last_exception, outcomes, sleeps, result, chunks, full_response,
          underlying, tool_chunks, stream_end, payload, raised, console,
          test_result, pre_messages, pre_file, procs, last_write>>

\* -------------------------------------------------------------- ChatSession
\* A session that takes no id for ephemeral.
MutIsTemp == FALSE
is_temp == session_id = "temp"

Message(role, content, t) == [role |-> role, content |-> content, timestamp |-> t]

\* json.dump of a string: the string between quotes.
JsonString(s) == <<"\"">> \o s \o <<"\"">>
\* json.load of a JSON string: what is between the quotes.
JsonUnquote(j) == SubSeq(j, 2, Len(j) - 1)
\* json.dump of one message: its members as key/value pairs, in the order
\* add_message built the dictionary in.
JsonObject(m) ==
    <<<<"role", JsonString(<<m.role>>)>>,
      <<"content", JsonString(m.content)>>,
      <<"timestamp", m.timestamp>>>>
\* json.dump of the message list.
JsonDump(msgs) == [i \in 1..Len(msgs) |-> JsonObject(msgs[i])]
\* The value of member key of a JSON object.
JsonMember(obj, key) == obj[CHOOSE i \in DOMAIN obj : obj[i][1] = key][2]
\* json.load of the "messages" array of a session file.
JsonLoad(arr) ==
    [i \in 1..Len(arr) |->
        [role |-> JsonUnquote(JsonMember(arr[i], "role"))[1],
         content |-> JsonUnquote(JsonMember(arr[i], "content")),
         timestamp |-> JsonMember(arr[i], "timestamp")]]

\* The file contents json.load accepts or rejects.
NoFile == [kind |-> "absent", created_at |-> 0, messages |-> <<>>]
Malformed(kind) == [kind |-> kind, created_at |-> 0, messages |-> <<>>]
\* What _save_messages writes.
SessionData(msgs, t) ==
    [kind |-> "record", created_at |-> t, messages |-> JsonDump(msgs)]

\* The conditions of the disk: it works, it is read-only (opening the file
\* for writing and deleting it raise), or it is full (the file is opened,
\* which empties it, and writing to it raises).
DiskConditions == {"ok", "readonly", "full"}
\* A session operation and the calls it made on the disk.
IO(op, calls) == [op |-> op, calls |-> calls]
NoIO == IO("none", <<>>)

\* The kinds of content found in a session file that this program did not
\* write: text that is no JSON, bytes that are no UTF-8, JSON that is no
\* object, an object without "messages", and objects whose "messages" is
\* null or a string.
ForeignKinds == {"unparsable", "undecodable", "nonobject", "nomessages",
                 "nullmessages", "strmessages"}

\* A session file an earlier process left after one turn, under a
\* CHAT_CACHE_LENGTH of 3 or more.
EarlierRecord ==
    SessionData(<<Message("system", SystemPrompt, 0), Message("user", <<"a">>, 0),
                  Message("assistant", <<"r">>, 0)>>, 0)

\* _truncate_messages
TruncateMessages(msgs, L) ==
    IF Len(msgs) <= L THEN msgs
    ELSE IF msgs # <<>> /\ msgs[1].role = "system"
         THEN <<msgs[1]>> \o PySliceFrom(msgs, -(L - 1))
         ELSE PySliceFrom(msgs, -L)

\* A snapshot that leaves out the newest message.
MutGetMessages(msgs) ==
    [i \in 1..(Len(msgs) - 1) |-> [role |-> msgs[i].role, content |-> msgs[i].content]]
\* get_messages
GetMessages(msgs) ==
    [i \in 1..Len(msgs) |-> [role |-> msgs[i].role, content |-> msgs[i].content]]

\* A save that writes the file twice.
MutSaveTwice(msgs) ==
    /\ file' = IF is_temp \/ disk = "readonly" THEN file
               ELSE IF disk = "ok" THEN SessionData(msgs, clock)
               ELSE Malformed("unparsable")
    /\ io' = IF is_temp THEN IO("add", <<>>)
             ELSE IF disk = "ok" THEN IO("add", <<"write", "write">>)
             ELSE IO("add", <<"write", "IOError", "write", "IOError">>)
\* _save_messages: nothing for a temp session, else one write of the file,
\* whose created_at is a reading of the clock; an IOError is reported as a
\* warning and leaves the file unopened (read-only disk) or cut short (full
\* disk).
SaveMessages(msgs) ==
    IF is_temp
    THEN /\ file' = file
         /\ io' = IO("add", <<>>)
    ELSE IF disk = "ok"
         THEN /\ file' = SessionData(msgs, clock)
              /\ io' = IO("add", <<"write">>)
         ELSE /\ file' = IF disk = "readonly" THEN file ELSE Malformed("unparsable")
              /\ io' = IO("add", <<"write", "IOError">>)

\* An add_message that saves before it truncates.
MutAddMessage(role, content) ==
    /\ messages' = TruncateMessages(
                       Append(messages, Message(role, content, clock)), max_length)
    /\ SaveMessages(Append(messages, Message(role, content, clock)))
    /\ clock' = clock + 1
    /\ UNCHANGED disk
\* add_message on a list: append, truncate, save. The two readings of the
\* clock, for the message's timestamp and for the record's created_at, fall
\* in the same tick; the clock has moved on by the next add_message.
AddMessage(role, content) ==
    /\ messages' = TruncateMessages(
                       Append(messages, Message(role, content, clock)), max_length)
    /\ SaveMessages(messages')
    /\ clock' = clock + 1
    /\ UNCHANGED disk

\* _load_messages: the result of ChatSession.__init__ over the file, as
\* [raises, type, messages].
LoadMessages(f) ==
    CASE f.kind = "absent"       -> [raises |-> "none", type |-> "list", messages |-> <<>>]
      [] f.kind = "unparsable"   -> [raises |-> "none", type |-> "list", messages |-> <<>>]
      [] f.kind = "undecodable"  -> [raises |-> "UnicodeDecodeError", type |-> "list", messages |-> <<>>]
      [] f.kind = "nonobject"    -> [raises |-> "AttributeError", type |-> "list", messages |-> <<>>]
      [] f.kind = "nomessages"   -> [raises |-> "none", type |-> "list", messages |-> <<>>]
      [] f.kind = "nullmessages" -> [raises |-> "none", type |-> "NoneType", messages |-> <<>>]
      [] f.kind = "strmessages"  -> [raises |-> "none", type |-> "str", messages |-> <<>>]
      [] f.kind = "record"       -> [raises |-> "none", type |-> "list", messages |-> JsonLoad(f.messages)]

\* ChatSession.__init__ for this session id: a temp session reads no file.
NewSession == IF is_temp THEN LoadMessages(NoFile) ELSE LoadMessages(file)

\* The calls ChatSession.__init__ makes on the disk: none for a temp session,
\* else the cache directory is made, the file is looked for, and read when
\* it is there.
OpenIO ==
    IF is_temp THEN IO("init", <<>>)
    ELSE IF file.kind = "absent" THEN IO("init", <<"mkdir", "stat">>)
    ELSE IO("init", <<"mkdir", "stat", "read">>)

\* "not self.session.messages"
Falsy(type, msgs) == type = "NoneType" \/ (type = "list" /\ msgs = <<>>)

\* ------------------------------------------------------------------ Init
\* The processes that share a session id.
Procs == 1..2
\* A process that has not made its ChatSession yet.
NoProc == [pc |-> "start", messages |-> <<>>, pending |-> NoFile]
\* No two processes share the session.
NoRace ==
    /\ procs = [p \in Procs |-> NoProc]
    /\ last_write = NoFile

NoResult == [kind |-> "none", content |-> <<>>]

CallIdle ==
    /\ caller = "none"
    /\ stream = FALSE
    /\ attempt = 0
    /\ last_exception = <<"None">>
    /\ outcomes = <<>>
    /\ sleeps = <<>>
    /\ result = NoResult
    /\ chunks = 0
    /\ full_response = <<>>
    /\ underlying = <<>>
    /\ tool_chunks = 0
    /\ stream_end = "none"

Init ==
    /\ session_id \in {"s1", "temp"}
    /\ max_length \in 1..MaxLengthBound
    /\ max_retries \in 0..ChatRetriesBound
    /\ retry_delay = DefaultRetryDelay
    /\ clock = 1
    /\ file \in {NoFile, EarlierRecord} \cup {Malformed(k) : k \in ForeignKinds}
    /\ disk = "ok"
    /\ io = NoIO
    /\ pc = "start"
    /\ messages = <<>>
    /\ messages_type = "list"
    /\ CallIdle
    /\ payload = <<>>
    /\ raised = "none"
    /\ console = "none"
    /\ test_result = "none"
    /\ pre_messages = <<>>
    /\ pre_file = NoFile
    /\ NoRace

\* --------------------------------------------------------------- ChatHandler
\* ChatHandler.__init__: open the session, and add the system message when
\* the session holds no message.
NewHandler ==
    /\ pc = "start"
    /\ clock < MaxClock
    /\ LET s == NewSession IN
       IF s.raises # "none"
       THEN /\ pc' = "crashed"
            /\ raised' = s.raises
            /\ io' = OpenIO
            /\ UNCHANGED <<messages, messages_type, file, clock, disk>>
       ELSE IF Falsy(s.type, s.messages)
            THEN IF s.type = "list"
                 THEN /\ AddMessage("system", SystemPrompt)
                      /\ messages_type' = "list"
                      /\ pc' = "idle"
                      /\ raised' = "none"
                 ELSE \* None has no append
                      /\ pc' = "crashed"
                      /\ raised' = "AttributeError"
                      /\ io' = OpenIO
                      /\ UNCHANGED <<messages, messages_type, file, clock, disk>>
            ELSE /\ messages' = s.messages
                 /\ messages_type' = s.type
                 /\ pc' = "idle"
                 /\ raised' = "none"
                 /\ io' = OpenIO
                 /\ UNCHANGED <<file, clock, disk>>
    /\ UNCHANGED <<config_vars, race_vars, call_vars, payload, console, test_result, hist_vars>>

\* A clear that returns at once when there is no file to delete.
MutClear ==
    /\ pc = "idle"
    /\ IF ~is_temp /\ file.kind = "absent"
       THEN /\ io' = IO("clear", <<"stat">>)
            /\ UNCHANGED <<messages, messages_type, file>>
       ELSE /\ messages' = <<>>
            /\ messages_type' = "list"
            /\ file' = IF is_temp \/ disk = "readonly" THEN file ELSE NoFile
            /\ io' = IF is_temp THEN IO("clear", <<>>)
                     ELSE IF disk = "readonly"
                          THEN IO("clear", <<"stat", "unlink", "OSError">>)
                          ELSE IO("clear", <<"stat", "unlink">>)
    /\ UNCHANGED <<config_vars, race_vars, clock, disk, pc, call_vars, payload, raised,
                   console, test_result, hist_vars>>
\* ChatSession.clear: the list is emptied and, for a session with a file
\* that is there, the file is deleted; an OSError of the deletion is
\* reported as a warning.
Clear ==
    /\ pc = "idle"
    /\ messages' = <<>>
    /\ messages_type' = "list"
    /\ IF is_temp
       THEN /\ file' = file
            /\ io' = IO("clear", <<>>)
       ELSE IF file.kind = "absent"
            THEN /\ file' = file
                 /\ io' = IO("clear", <<"stat">>)
            ELSE IF disk = "readonly"
                 THEN /\ file' = file
                      /\ io' = IO("clear", <<"stat", "unlink", "OSError">>)
                 ELSE /\ file' = NoFile
                      /\ io' = IO("clear", <<"stat", "unlink">>)
    /\ UNCHANGED <<config_vars, race_vars, clock, disk, pc, call_vars, payload, raised,
                   console, test_result, hist_vars>>

\* The process ends; the next one starts with no handler.
Exit ==
    /\ pc \in {"idle", "crashed"}
    /\ pc' = "start"
    /\ messages' = <<>>
    /\ messages_type' = "list"
    /\ payload' = <<>>
    /\ raised' = "none"
    /\ console' = "none"
    /\ test_result' = "none"
    /\ io' = NoIO
    /\ UNCHANGED <<config_vars, race_vars, clock, file, disk, call_vars, hist_vars>>

\* ------------------------------------------------------------ DeepSeekClient
\* _create_error_response: MockResponse(f"[x] Error: {error_message}")
ErrorPrefix == <<"[x] Error: ">>
CreateErrorResponse(error_message) ==
    [kind |-> "MockResponse", content |-> ErrorPrefix \o error_message]

\* What one call of litellm's completion can do: raise, or return None, a
\* boolean, an object without choices, a response with empty choices, a
\* response with content, or (when streaming was asked for) a chunk stream.
Outcomes(st) ==
    {[kind |-> "raise", content |-> <<e>>] : e \in TransportErrors}
    \cup {[kind |-> k, content |-> <<>>] : k \in {"None", "bool"}}
    \cup {[kind |-> k, content |-> <<>>] : k \in {"nochoices", "emptychoices"}}
    \cup (IF st
          THEN {[kind |-> "Stream", content |-> <<>>]}
          ELSE {[kind |-> "ModelResponse", content |-> c] : c \in Contents})

\* The checks of one attempt without the one for a boolean.
MutAttemptError(o, st) ==
    CASE o.kind = "raise" -> o.content
      [] o.kind = "None" -> <<"API returned None response">>
      [] o.kind = "nochoices" /\ ~st -> <<"API response missing 'choices' attribute">>
      [] o.kind = "emptychoices" /\ ~st -> <<"API response has empty choices">>
      [] OTHER -> <<>>
\* The checks of one attempt: str() of the exception the attempt ends with,
\* or <<>> when the result is returned.
AttemptError(o, st) ==
    CASE o.kind = "raise" -> o.content
      [] o.kind = "None" -> <<"API returned None response">>
      [] o.kind = "bool" -> <<"API returned boolean: ", "True">>
      [] o.kind = "nochoices" /\ ~st -> <<"API response missing 'choices' attribute">>
      [] o.kind = "emptychoices" /\ ~st -> <<"API response has empty choices">>
      [] OTHER -> <<>>

\* A backoff that grows linearly.
MutDelay(a) == retry_delay * (a + 1)
\* The delay slept after failed attempt a.
Delay(a) == retry_delay * Pow2(a)

\* complete() is entered: the locals of _retry_with_backoff before its loop.
StartCall(who, st) ==
    /\ caller' = who
    /\ stream' = st
    /\ attempt' = 0
    /\ last_exception' = <<"None">>
    /\ outcomes' = <<>>
    /\ sleeps' = <<>>
    /\ result' = NoResult
    /\ chunks' = 0
    /\ full_response' = <<>>
    /\ underlying' = <<>>
    /\ tool_chunks' = 0
    /\ stream_end' = "none"

\* The call is over and its locals are gone.
EndCall ==
    /\ caller' = "none"
    /\ stream' = FALSE
    /\ attempt' = 0
    /\ last_exception' = <<"None">>
    /\ outcomes' = <<>>
    /\ sleeps' = <<>>
    /\ result' = NoResult
    /\ chunks' = 0
    /\ full_response' = <<>>
    /\ underlying' = <<>>
    /\ tool_chunks' = 0
    /\ stream_end' = "none"

\* Where a finished retry loop hands its result: to the caller of a
\* non-streaming complete(), or to the chunk loop of _stream_completion.
AfterLoop == IF stream THEN "streaming" ELSE "returned"

\* A retry loop that keeps the first exception instead of the last.
MutRemoteCall(o) ==
    /\ pc = "calling"
    /\ outcomes' = Append(outcomes, o)
    /\ LET err == AttemptError(o, stream) IN
       IF err = <<>>
       THEN /\ result' = [kind |-> o.kind, content |-> o.content]
            /\ pc' = AfterLoop
            /\ UNCHANGED last_exception
       ELSE /\ last_exception' = IF outcomes = <<>> THEN err ELSE last_exception
            /\ IF attempt = max_retries
               THEN /\ result' = CreateErrorResponse(last_exception')
                    /\ pc' = AfterLoop
               ELSE /\ pc' = "sleeping"
                    /\ UNCHANGED result
    /\ UNCHANGED <<config_vars, race_vars, session_vars, caller, stream, attempt, sleeps,
                   chunks, full_response, underlying, tool_chunks, stream_end,
                   payload, raised, console, test_result, hist_vars>>
\* One iteration of _retry_with_backoff's loop up to its sleep: the remote
\* call, the checks of its result, and the exception handler.
RemoteCall(o) ==
    /\ pc = "calling"
    /\ outcomes' = Append(outcomes, o)
    /\ LET err == AttemptError(o, stream) IN
       IF err = <<>>
       THEN /\ result' = [kind |-> o.kind, content |-> o.content]
            /\ pc' = AfterLoop
            /\ UNCHANGED last_exception
       ELSE /\ last_exception' = err
            /\ IF attempt = max_retries
               THEN /\ result' = CreateErrorResponse(err)
                    /\ pc' = AfterLoop
               ELSE /\ pc' = "sleeping"
                    /\ UNCHANGED result
    /\ UNCHANGED <<config_vars, race_vars, session_vars, caller, stream, attempt, sleeps,
                   chunks, full_response, underlying, tool_chunks, stream_end,
                   payload, raised, console, test_result, hist_vars>>

\* A backoff whose exponent is one too high.
MutBackoff ==
    /\ pc = "sleeping"
    /\ sleeps' = Append(sleeps, Delay(attempt + 1))
    /\ attempt' = attempt + 1
    /\ pc' = "calling"
    /\ UNCHANGED <<config_vars, race_vars, session_vars, caller, stream, last_exception,
                   outcomes, result, chunks, full_response, underlying,
                   tool_chunks, stream_end, payload, raised, console,
                   test_result, hist_vars>>
\* time.sleep(delay) of a failed attempt that was not the last, and the step
\* to the next attempt.
Backoff ==
    /\ pc = "sleeping"
    /\ sleeps' = Append(sleeps, Delay(attempt))
    /\ attempt' = attempt + 1
    /\ pc' = "calling"
    /\ UNCHANGED <<config_vars, race_vars, session_vars, caller, stream, last_exception,
                   outcomes, result, chunks, full_response, underlying,
                   tool_chunks, stream_end, payload, raised, console,
                   test_result, hist_vars>>

\* _stream_completion's except clause: f"[x] Streaming Error: {str(e)}"
StreamingErrorPrefix == <<"[x] Streaming Error: ">>
StreamingError(msg) == StreamingErrorPrefix \o msg
\* str() of the TypeError of "for chunk in stream" over a MockResponse
NotIterable == <<"'MockResponse' object is not iterable">>
\* and over another object that is no stream
NotIterableObject == <<"'object' object is not iterable">>

\* The chunks a stream delivers: one without choices, one whose delta has a
\* text fragment, one whose delta has neither content nor tool outcomes, and one
\* whose delta announces a tool call.
Chunks ==
    {[kind |-> k, content |-> <<>>] : k \in {"nochoices", "empty"}}
    \cup {[kind |-> "content", content |-> f] : f \in Fragments}
    \cup {[kind |-> "tool_call", content |-> <<n>>] : n \in ToolNames}

\* The chunks the stream of a chat turn delivers: those of one text fragment.
ChatChunks == {c \in Chunks : c.kind = "content" => c.content = <<"r">>}

\* The text a chunk carries as its delta.content.
DeltaContent(c) == IF c.kind = "content" THEN c.content ELSE <<>>

\* f"\n[tool] Calling function: {tool_call.function.name}\n"
ToolMarkerPrefix == <<"\nCalling function: ">>
ToolMarker(name) == ToolMarkerPrefix \o name \o <<"\n">>

\* A generator that yields str() of a content that is None.
MutYielded(c) ==
    CASE c.kind = "content" -> c.content
      [] c.kind = "empty" -> <<"None">>
      [] c.kind = "tool_call" -> ToolMarker(c.content)
      [] OTHER -> <<>>
\* What _stream_completion yields for one chunk (<<>>: it yields nothing).
Yielded(c) ==
    CASE c.kind = "content" -> c.content
      [] c.kind = "tool_call" -> ToolMarker(c.content)
      [] OTHER -> <<>>

\* ------------------------------------------------------------ BaseHandler
\* get_completion: the request goes to the client's complete().
GetCompletion(st) == StartCall("handle", st)

\* stream_response: each fragment the generator yields is shown and appended
\* to the text returned once the generator is exhausted.
StreamResponse(text, fragment) == text \o fragment

\* handle_error: the exception is reported, not raised.
HandleError == console' = "error"

\* ---------------------------------------------------- ChatHandler.handle
\* handle() returns: its locals and the history of the turn are gone.
EndTurn ==
    /\ payload' = <<>>
    /\ pre_messages' = <<>>
    /\ pre_file' = NoFile

\* handle() up to the remote call: the empty-prompt return, or make_messages
\* (the user message is added and saved, the snapshot is the payload) and the
\* entry into complete().
HandleBegin(prompt, st) ==
    /\ pc = "idle"
    /\ clock < MaxClock
    /\ IF Strip(prompt) = <<>>
       THEN /\ console' = "empty_prompt"
            /\ UNCHANGED <<session_vars, pc, call_vars, payload, hist_vars>>
       ELSE IF messages_type # "list"
            THEN \* add_message raises AttributeError, handle_error reports it
                 /\ HandleError
                 /\ UNCHANGED <<session_vars, pc, call_vars, payload, hist_vars>>
            ELSE /\ pre_messages' = messages
                 /\ pre_file' = file
                 /\ AddMessage("user", prompt)
                 /\ payload' = GetMessages(messages')
                 /\ GetCompletion(st)
                 /\ pc' = "calling"
                 /\ console' = "none"
                 /\ UNCHANGED messages_type
    /\ UNCHANGED <<config_vars, race_vars, raised, test_result>>

\* handle() after a non-streaming complete() returned: the content of the
\* first choice is printed and added as the assistant message.
HandleFinish ==
    /\ pc = "returned"
    /\ caller = "handle"
    /\ AddMessage("assistant", result.content)
    /\ EndCall
    /\ EndTurn
    /\ pc' = "idle"
    /\ console' = "response"
    /\ UNCHANGED <<config_vars, race_vars, messages_type, raised, test_result>>

\* One chunk of the stream is read, and what the generator yields for it is
\* appended by the consumer.
StreamChunk(c) ==
    /\ pc = "streaming"
    /\ result.kind = "Stream"
    /\ chunks < MaxChunks
    /\ chunks' = chunks + 1
    /\ full_response' = StreamResponse(full_response, Yielded(c))
    /\ underlying' = underlying \o DeltaContent(c)
    /\ tool_chunks' = tool_chunks + (IF c.kind = "tool_call" THEN 1 ELSE 0)
    /\ UNCHANGED <<config_vars, race_vars, session_vars, pc, caller, stream, attempt,
                   last_exception, outcomes, sleeps, result, stream_end, payload,
                   raised, console, test_result, hist_vars>>

\* A generator that yields the error text after yielding again what it had
\* yielded.
MutStreamEndText(how) ==
    CASE how.kind = "exhausted" -> full_response
      [] how.kind = "raise" ->
            full_response \o full_response \o StreamingError(how.content)
      [] how.kind = "not_iterable" -> full_response \o StreamingError(how.content)
\* The generator ends: the stream is exhausted, or reading it raised e, or
\* the retry loop returned what is no stream: a MockResponse, which is not
\* iterable, or an object without choices or with empty ones, which is not
\* iterable or gives no chunk with choices. Where an exception ended it, the
\* error text is yielded first. The consumer returns the concatenation and
\* handle() adds it as the assistant message.
StreamEndText(how) ==
    CASE how.kind = "exhausted" -> full_response
      [] how.kind = "raise" ->
            StreamResponse(full_response, StreamingError(how.content))
      [] how.kind = "not_iterable" ->
            StreamResponse(full_response, StreamingError(how.content))

StreamEnds ==
    IF result.kind = "Stream"
    THEN {[kind |-> "exhausted", content |-> <<>>]}
         \cup {[kind |-> "raise", content |-> <<e>>] : e \in TransportErrors}
    ELSE IF result.kind = "MockResponse"
         THEN {[kind |-> "not_iterable", content |-> NotIterable]}
         ELSE {[kind |-> "not_iterable", content |-> NotIterableObject],
               [kind |-> "exhausted", content |-> <<>>]}

StreamEnd(how) ==
    /\ pc = "streaming"
    /\ caller = "handle"
    /\ how \in StreamEnds
    /\ AddMessage("assistant", StreamEndText(how))
    /\ EndCall
    /\ EndTurn
    /\ pc' = "idle"
    /\ console' = "response"
    /\ UNCHANGED <<config_vars, race_vars, messages_type, raised, test_result>>

\* A cancellation that records what was received so far.
MutInterrupt ==
    /\ pc \in {"calling", "sleeping", "streaming"}
    /\ caller = "handle"
    /\ pc' = "idle"
    /\ console' = "cancelled"
    /\ AddMessage("assistant", full_response)
    /\ EndCall
    /\ EndTurn
    /\ UNCHANGED <<config_vars, race_vars, messages_type, raised, test_result>>
\* KeyboardInterrupt while handle() waits for the remote call, sleeps between
\* attempts or reads the stream: no except clause of the client catches it,
\* handle() reports the cancellation and returns.
Interrupt ==
    /\ pc \in {"calling", "sleeping", "streaming"}
    /\ caller = "handle"
    /\ pc' = "idle"
    /\ console' = "cancelled"
    /\ EndCall
    /\ EndTurn
    /\ UNCHANGED <<config_vars, race_vars, session_vars, raised, test_result>>

\* ------------------------------------------------- DeepSeekClient, called
\* complete(messages, stream=st) called on the client directly.
CompleteBegin(st) ==
    /\ pc = "idle"
    /\ StartCall("complete", st)
    /\ pc' = "calling"
    /\ UNCHANGED <<config_vars, race_vars, session_vars, payload, raised, console,
                   test_result, hist_vars>>

\* The generator of a streaming complete() ends, its consumer having
\* concatenated all it yielded.
GeneratorEnd(how) ==
    /\ pc = "streaming"
    /\ caller = "complete"
    /\ how \in StreamEnds
    /\ full_response' = StreamEndText(how)
    /\ stream_end' = how.kind
    /\ pc' = "consumed"
    /\ UNCHANGED <<config_vars, race_vars, session_vars, caller, stream, attempt,
                   last_exception, outcomes, sleeps, result, chunks, underlying,
                   tool_chunks, payload, raised, console, test_result, hist_vars>>

\* The caller of complete() is done with what it got.
CompleteDone ==
    /\ \/ pc = "consumed"
       \/ pc = "returned" /\ caller = "complete"
    /\ EndCall
    /\ pc' = "idle"
    /\ UNCHANGED <<config_vars, race_vars, session_vars, payload, raised, console,
                   test_result, hist_vars>>

\* test_connection() up to the remote call.
TestBegin ==
    /\ pc = "idle"
    /\ StartCall("test_connection", FALSE)
    /\ pc' = "calling"
    /\ test_result' = "none"
    /\ UNCHANGED <<config_vars, race_vars, session_vars, payload, raised, console, hist_vars>>

\* test_connection() after complete() returned: the checks of the response
\* and bool() of its content.
TestConnection(r) ==
    IF r.kind \notin {"ModelResponse", "MockResponse"} THEN "false"
    ELSE IF r.content # <<>> THEN "true" ELSE "false"

TestFinish ==
    /\ pc = "returned"
    /\ caller = "test_connection"
    /\ test_result' = TestConnection(result)
    /\ pc' = "tested"
    /\ UNCHANGED <<config_vars, race_vars, session_vars, call_vars, payload, raised,
                   console, hist_vars>>

\* The caller of test_connection() has its answer.
TestDone ==
    /\ pc = "tested"
    /\ EndCall
    /\ pc' = "idle"
    /\ test_result' = "none"
    /\ UNCHANGED <<config_vars, race_vars, session_vars, payload, raised, console,
                   hist_vars>>

\* ------------------------------------------------------- specifications
\* A chat process: handlers are created over the session file, take turns,
\* are cleared, and end.
Next ==
    \/ NewHandler
    \/ Clear
    \/ Exit
    \/ \E p \in Prompts, st \in BOOLEAN : HandleBegin(p, st)
    \/ \E o \in Outcomes(stream) : RemoteCall(o)
    \/ Backoff
    \/ HandleFinish
    \/ \E c \in ChatChunks : StreamChunk(c)
    \/ \E how \in StreamEnds : StreamEnd(how)
    \/ Interrupt

Spec == Init /\ [][Next]_vars

\* The client alone, called directly: complete(), streaming or not, and
\* test_connection().
ClientInit ==
    /\ session_id = "temp"
    /\ max_length = 1
    /\ max_retries \in 0..MaxRetriesBound
    /\ retry_delay \in 1..MaxDelayBound
    /\ clock = 1
    /\ file = NoFile
    /\ disk = "ok"
    /\ io = NoIO
    /\ pc = "idle"
    /\ messages = <<>>
    /\ messages_type = "list"
    /\ CallIdle
    /\ payload = <<>>
    /\ raised = "none"
    /\ console = "none"
    /\ test_result = "none"
    /\ pre_messages = <<>>
    /\ pre_file = NoFile
    /\ NoRace

ClientNext ==
    \/ \E st \in BOOLEAN : CompleteBegin(st)
    \/ \E o \in Outcomes(stream) : RemoteCall(o)
    \/ Backoff
    \/ \E c \in Chunks : StreamChunk(c)
    \/ \E how \in StreamEnds : GeneratorEnd(how)
    \/ CompleteDone
    \/ TestBegin
    \/ TestFinish
    \/ TestDone

ClientSpec == ClientInit /\ [][ClientNext]_vars

\* The client over streams that are finite: the chunk loop of
\* _stream_completion reaches the end of the stream it reads.
FairClientSpec ==
    ClientSpec /\ WF_vars(\E how \in StreamEnds : GeneratorEnd(how))

\* ------------------------------------------------- ChatSession, called
\* The roles and contents add_message is called with.
Roles == {"system", "user", "assistant"}
Texts == {<<"a">>}

\* ChatSession(session_id, max_length): the file is loaded when it is there.
OpenSession ==
    /\ pc = "start"
    /\ LET s == NewSession IN
       /\ raised' = s.raises
       /\ pc' = IF s.raises = "none" THEN "idle" ELSE "crashed"
       /\ messages' = s.messages
       /\ messages_type' = s.type
    /\ io' = OpenIO
    /\ UNCHANGED <<config_vars, race_vars, file, clock, disk, call_vars, payload, console,
                   test_result, hist_vars>>

\* An add_message whose save lets the IOError of a failed write escape.
MutSessionAdd(role, content) ==
    /\ pc = "idle"
    /\ clock <= MaxAdds
    /\ IF messages_type = "list"
       THEN /\ AddMessage(role, content)
            /\ pc' = IF is_temp \/ disk = "ok" THEN pc ELSE "crashed"
            /\ raised' = IF is_temp \/ disk = "ok" THEN raised ELSE "IOError"
            /\ UNCHANGED messages_type
       ELSE /\ pc' = "crashed"
            /\ raised' = "AttributeError"
            /\ UNCHANGED session_vars
    /\ UNCHANGED <<config_vars, race_vars, call_vars, payload, console, test_result,
                   hist_vars>>
\* session.add_message(role, content); on what is no list, append raises.
SessionAdd(role, content) ==
    /\ pc = "idle"
    /\ clock <= MaxAdds
    /\ IF messages_type = "list"
       THEN /\ AddMessage(role, content)
            /\ UNCHANGED <<pc, raised, messages_type>>
       ELSE /\ pc' = "crashed"
            /\ raised' = "AttributeError"
            /\ UNCHANGED session_vars
    /\ UNCHANGED <<config_vars, race_vars, call_vars, payload, console, test_result,
                   hist_vars>>

\* Between two operations of the session the disk gets into condition d.
DiskChange(d) ==
    /\ pc \in {"start", "idle"}
    /\ d \in DiskConditions
    /\ d # disk
    /\ disk' = d
    /\ UNCHANGED <<config_vars, race_vars, messages, messages_type, file, clock, io, pc,
                   call_vars, payload, raised, console, test_result, hist_vars>>

\* A session used directly, over a disk that may fail: it is opened, added
\* to, cleared, and dropped when its process ends.
SessionInit ==
    /\ session_id \in {"s1", "temp"}
    /\ max_length \in 1..MaxLengthBound
    /\ max_retries = 0
    /\ retry_delay = DefaultRetryDelay
    /\ clock = 1
    /\ file \in {NoFile, EarlierRecord} \cup {Malformed(k) : k \in ForeignKinds}
    /\ disk \in DiskConditions
    /\ io = NoIO
    /\ pc = "start"
    /\ messages = <<>>
    /\ messages_type = "list"
    /\ CallIdle
    /\ payload = <<>>
    /\ raised = "none"
    /\ console = "none"
    /\ test_result = "none"
    /\ pre_messages = <<>>
    /\ pre_file = NoFile
    /\ NoRace

SessionNext ==
    \/ OpenSession
    \/ \E r \in Roles, c \in Texts : SessionAdd(r, c)
    \/ Clear
    \/ Exit
    \/ \E d \in DiskConditions : DiskChange(d)

SessionSpec == SessionInit /\ [][SessionNext]_vars

\* ------------------------------------- two processes on one session id
\* The contents the processes add.
RaceTexts == {<<"a">>, <<"b">>}

\* Process p makes its ChatSession: the file is loaded when it is there.
RaceOpen(p) ==
    /\ procs[p].pc = "start"
    /\ LET s == LoadMessages(file) IN
       procs' = [procs EXCEPT ![p] =
                    [pc |-> IF s.raises = "none" /\ s.type = "list"
                            THEN "idle" ELSE "crashed",
                     messages |-> s.messages,
                     pending |-> NoFile]]
    /\ UNCHANGED <<config_vars, session_vars, pc, call_vars, payload, raised,
                   console, test_result, hist_vars, last_write>>

\* add_message in process p up to the open() of _save_messages: the message
\* is appended, the list truncated, the record built, and the file opened
\* for writing, which empties it. What is dumped stays in the buffer of p's
\* file object.
RaceAppend(p, content) ==
    /\ procs[p].pc = "idle"
    /\ clock <= MaxAdds
    /\ LET msgs == TruncateMessages(
                       Append(procs[p].messages, Message("user", content, clock)),
                       max_length) IN
       procs' = [procs EXCEPT ![p] =
                    [pc |-> "saving",
                     messages |-> msgs,
                     pending |-> SessionData(msgs, clock)]]
    /\ file' = Malformed("unparsable")
    /\ clock' = clock + 1
    /\ UNCHANGED <<config_vars, messages, messages_type, disk, io, pc, call_vars,
                   payload, raised, console, test_result, hist_vars, last_write>>

\* What the file holds once a record was written from its first byte on
\* over content f: the record, when f is not longer than it; the record
\* followed by the end of f, which is no JSON, when f is longer. A record of
\* more messages is longer, a record of as many may be.
Written(f, record) ==
    IF f.kind # "record" \/ Len(f.messages) < Len(record.messages) THEN {record}
    ELSE IF Len(f.messages) > Len(record.messages) \/ f = record
         THEN {IF f = record THEN record ELSE Malformed("unparsable")}
         ELSE {record, Malformed("unparsable")}

\* The end of the with block of _save_messages in process p: the buffer of
\* p's file object is written to the file, from the position p's open left.
RaceWrite(p) ==
    /\ procs[p].pc = "saving"
    /\ file' \in Written(file, procs[p].pending)
    /\ last_write' = procs[p].pending
    /\ procs' = [procs EXCEPT ![p].pc = "idle", ![p].pending = NoFile]
    /\ UNCHANGED <<config_vars, messages, messages_type, clock, disk, io, pc,
                   call_vars, payload, raised, console, test_result, hist_vars>>

RaceInit ==
    /\ session_id = "s1"
    /\ max_length \in 1..MaxLengthBound
    /\ max_retries = 0
    /\ retry_delay = DefaultRetryDelay
    /\ clock = 1
    /\ file \in {NoFile, EarlierRecord}
    /\ disk = "ok"
    /\ io = NoIO
    /\ pc = "start"
    /\ messages = <<>>
    /\ messages_type = "list"
    /\ CallIdle
    /\ payload = <<>>
    /\ raised = "none"
    /\ console = "none"
    /\ test_result = "none"
    /\ pre_messages = <<>>
    /\ pre_file = NoFile
    /\ NoRace

RaceNext ==
    \/ \E p \in Procs : RaceOpen(p)
    \/ \E p \in Procs, c \in RaceTexts : RaceAppend(p, c)
    \/ \E p \in Procs : RaceWrite(p)

RaceSpec == RaceInit /\ [][RaceNext]_vars

\* ------------------------------------------------------------------ claims
Range(f) == {f[i] : i \in DOMAIN f}
\* The last n elements of h
LastN(h, n) == SubSeq(h, Len(h) - n + 1, Len(h))
\* The truncation policy as the specification words it.
ReferencePolicy(h, L) ==
    IF Len(h) <= L THEN h
    ELSE IF h[1].role = "system" THEN <<h[1]>> \o LastN(h, L - 1)
    ELSE LastN(h, L)
\* A step in which add_message ran: it is the only reader of the clock.
Added == clock' = clock + 1
\* A step in which handle() reported the user's cancellation.
Cancelled ==
    /\ pc \in {"calling", "sleeping", "streaming"}
    /\ pc' = "idle"
    /\ console' = "cancelled"
\* The attempt that ended with o failed: the call raised, or what it
\* returned is nothing, a boolean or, where a response with choices was asked
\* for, a response without them.
Failed(o) ==
    \/ o.kind \in {"raise", "None", "bool"}
    \/ ~stream /\ o.kind \in {"nochoices", "emptychoices"}
\* The remote call failed on every attempt made so far.
AllFailed == \A i \in DOMAIN outcomes : Failed(outcomes[i])
\* The retry loop is over.
LoopOver == pc \in {"returned", "streaming", "consumed", "tested"}
\* The text is one the client made up for an error.
IsErrorText(c) == Contains(c, ErrorPrefix) \/ Contains(c, StreamingErrorPrefix)

\* C1: after each add_message the session holds at most max_length messages.
C1_LengthWithinMax == [][Added => Len(messages') <= max_length]_vars

\* C2: the list after add_message is the reference truncation policy applied
\* to the list before it with the new message appended.
C2_ReferencePolicy ==
    [][Added =>
        /\ messages' # <<>>
        /\ messages' = ReferencePolicy(
                            Append(messages, messages'[Len(messages')]), max_length)]_vars

\* C3: after every step a non-empty message list starts with a system
\* message, and an add_message on a list that starts with a system message
\* leaves that message first.
C3_FirstIsSystem ==
    [][/\ messages' # <<>> => messages'[1].role = "system"
       /\ (Added /\ messages # <<>> /\ messages[1].role = "system")
              => messages' # <<>> /\ messages'[1] = messages[1]]_vars

\* C4: when every attempt of a non-streaming complete() failed, complete()
\* has returned, without raising and after exactly max_retries + 1 attempts,
\* a MockResponse whose content is the error prefix followed by the message
\* of the last attempt's error, and holds no other transport error's message.
C4_FailureCarriesLastError ==
    (pc = "returned" /\ AllFailed) =>
        LET last == outcomes[Len(outcomes)] IN
        /\ raised = "none"
        /\ Len(outcomes) = max_retries + 1
        /\ result.kind = "MockResponse"
        /\ result.content = ErrorPrefix \o AttemptError(last, FALSE)
        /\ last.kind = "raise" =>
              /\ Contains(result.content, last.content)
              /\ \A e \in TransportErrors :
                    <<e>> # last.content => ~Contains(result.content, <<e>>)

C4_Witness ==
    /\ pc = "returned"
    /\ Len(outcomes) >= 2
    /\ outcomes[1] = [kind |-> "raise", content |-> <<"e1">>]
    /\ outcomes[Len(outcomes)] = [kind |-> "raise", content |-> <<"e2">>]
    /\ AllFailed

\* C5: while every attempt fails, attempt i is followed by a sleep of
\* retry_delay * 2^i and then by attempt i + 1, up to attempt max_retries,
\* which is followed by no sleep: max_retries + 1 attempts, max_retries sleeps.
C5_RetrySchedule ==
    AllFailed =>
        /\ sleeps = [i \in 1..Len(sleeps) |-> retry_delay * Pow2(i - 1)]
        /\ pc = "calling" => Len(sleeps) = Len(outcomes) /\ Len(outcomes) <= max_retries
        /\ pc = "sleeping" => Len(sleeps) = Len(outcomes) - 1 /\ Len(outcomes) <= max_retries
        /\ LoopOver => Len(outcomes) = max_retries + 1 /\ Len(sleeps) = max_retries

C5_Witness ==
    /\ pc = "returned"
    /\ AllFailed
    /\ max_retries = MaxRetriesBound
    /\ retry_delay = MaxDelayBound
    /\ Len(sleeps) = max_retries

\* C6: no error text of the client is ever an assistant message of the
\* session, in memory or in the session file, or part of a request.
C6_NoErrorTextInSession ==
    /\ \A i \in DOMAIN messages : ~IsErrorText(messages[i].content)
    /\ \A i \in DOMAIN file.messages :
          ~IsErrorText(JsonLoad(file.messages)[i].content)
    /\ \A i \in DOMAIN payload : ~IsErrorText(payload[i].content)

\* C7: when handle() reports the cancellation, the message list and the
\* session file are what they were when handle() was called.
C7_InterruptRestoresSession ==
    [][Cancelled => messages' = pre_messages /\ file' = pre_file]_vars

\* C8: when handle() reports the cancellation, every assistant message of the
\* list and of the session file was there when handle() was called.
C8_InterruptAddsNoAssistant ==
    [][Cancelled =>
        /\ \A i \in DOMAIN messages' :
              messages'[i].role = "assistant" => messages'[i] \in Range(pre_messages)
        /\ \A i \in DOMAIN file'.messages :
              JsonLoad(file'.messages)[i].role = "assistant"
                  => JsonLoad(file'.messages)[i] \in Range(JsonLoad(pre_file.messages))]_vars

C8_Witness ==
    /\ pc = "idle"
    /\ console = "cancelled"
    /\ messages # <<>>
    /\ messages[Len(messages)].role = "user"
    /\ \E i \in DOMAIN messages : messages[i].role = "assistant"

\* C9: creating a session over a session file never raises and leaves a
\* message list that add_message works on.
C9_LoadNeverRaises == pc # "crashed" /\ raised = "none" /\ messages_type = "list"

\* C10: test_connection() never raises, returns true only when the remote
\* model returned non-empty content, and returns false when every attempt
\* failed.
C10_TestConnectionTruthful ==
    pc = "tested" =>
        LET last == outcomes[Len(outcomes)] IN
        /\ raised = "none"
        /\ test_result = "true" => last.kind = "ModelResponse" /\ last.content # <<>>
        /\ AllFailed => test_result = "false"

\* How many of the calls on the disk are call c.
Count(calls, c) == Cardinality({i \in DOMAIN calls : calls[i] = c})
\* The session has a file of its own.
Persistent == session_id # "temp"

\* C11: the last add_message or clear of a session with a file made exactly
\* one change to the file: one write or one deletion.
C11_OneWritePerMutation ==
    (Persistent /\ io.op \in {"add", "clear"}) =>
        Count(io.calls, "write") + Count(io.calls, "unlink") = 1

\* C11, amended: add_message on a session with a file opens the file for
\* writing exactly once and deletes nothing; clear writes nothing and deletes
\* the file at most once, and not at all when the file is not there.
C11_OneWritePerAdd ==
    /\ (Persistent /\ io.op = "add") =>
           Count(io.calls, "write") = 1 /\ Count(io.calls, "unlink") = 0
    /\ (Persistent /\ io.op = "clear") =>
           /\ Count(io.calls, "write") = 0
           /\ Count(io.calls, "unlink") <= 1
           /\ io.calls = <<"stat">> => file.kind = "absent"

C11_Witness ==
    /\ Persistent
    /\ io = IO("add", <<"write">>)
    /\ Len(messages) >= 2
    /\ file = SessionData(messages, clock - 1)

\* C12: after an add_message on a session with a file whose save succeeded,
\* a ChatSession opened on the same id loads, without raising, exactly the
\* messages the list holds after truncation, in the same order.
C12_SaveLoadRoundTrip ==
    [][(Added /\ Persistent /\ io' = IO("add", <<"write">>)) =>
          LoadMessages(file') =
              [raises |-> "none", type |-> "list", messages |-> messages']]_vars

C12_Witness ==
    /\ Persistent
    /\ io = IO("add", <<"write">>)
    /\ max_length = 2
    /\ clock = MaxAdds + 1
    /\ Len(messages) = 2
    /\ LoadMessages(file).messages = messages

\* C13: a save leaves the created_at of a session file that holds a record
\* what it was.
C13_CreatedAtKept ==
    [][(file.kind = "record" /\ file'.kind = "record") =>
          file'.created_at = file.created_at]_vars

\* C14: no operation of a session with id "temp" makes a call on the disk or
\* changes a file, and its add_message appends to the list and truncates it.
C14_TempTouchesNoFile ==
    [][session_id = "temp" =>
          /\ file' = file
          /\ io'.calls = <<>>
          /\ Added =>
                /\ messages' # <<>>
                /\ messages'[Len(messages')].timestamp = clock
                /\ messages' = TruncateMessages(
                       Append(messages, messages'[Len(messages')]), max_length)]_vars

C14_Witness ==
    /\ session_id = "temp"
    /\ file = EarlierRecord
    /\ io = IO("clear", <<>>)
    /\ clock = MaxAdds + 1
    /\ messages = <<>>

\* C15: after clear() the list is empty, nothing was raised and a session
\* with a file has no file.
C15_ClearLeavesNoFile ==
    io.op = "clear" =>
        /\ messages = <<>>
        /\ messages_type = "list"
        /\ raised = "none"
        /\ Persistent => file.kind = "absent"

\* C15, amended: after clear() the list is empty and nothing was raised; a
\* session with a file has no file unless the deletion failed, which leaves
\* the file there; and a clear() after a clear() leaves the list empty and
\* the file as it was, or deleted where the first deletion had failed.
C15_ClearIdempotent ==
    [][/\ io'.op = "clear" =>
            /\ messages' = <<>>
            /\ messages_type' = "list"
            /\ raised' = "none"
            /\ pc' = "idle"
            /\ (Persistent /\ file'.kind # "absent") =>
                   io'.calls = <<"stat", "unlink", "OSError">>
       /\ (io.op = "clear" /\ io'.op = "clear") =>
            /\ messages' = messages
            /\ file' \in {file, NoFile}
            /\ Count(io.calls, "OSError") = 0 => file' = file]_vars

C15_Witness ==
    /\ Persistent
    /\ io = IO("clear", <<"stat">>)
    /\ file.kind = "absent"
    /\ messages = <<>>
    /\ clock > 1

\* Attempt i of the retry loop was treated as failed: a sleep followed it,
\* or is about to, or it was the last attempt allowed and the loop returned
\* the error response.
TreatedAsFailed(i) ==
    \/ Len(sleeps) >= i
    \/ i = Len(outcomes) /\ pc = "sleeping" /\ i <= max_retries
    \/ i = Len(outcomes) /\ i = max_retries + 1 /\ result.kind = "MockResponse"
\* What complete() may hand to its caller as a success.
Successes == {"none", "MockResponse", "ModelResponse", "Stream"}

\* C16: in a streaming call as in a non-streaming one, an attempt that
\* raised or returned None, a boolean or a response with missing or empty
\* choices is treated as failed, and the loop returns no such response.
C16_MalformedAlwaysFailed ==
    /\ \A i \in DOMAIN outcomes :
          outcomes[i].kind \in {"raise", "None", "bool", "nochoices", "emptychoices"}
              => TreatedAsFailed(i)
    /\ result.kind \in Successes

\* C16, amended: an attempt that raised or returned None or a boolean, in a
\* streaming call as in a non-streaming one, or that returned a response with
\* missing or empty choices in a non-streaming call, is treated as failed,
\* and the loop returns no such response.
C16_FailedAttemptRetried ==
    /\ \A i \in DOMAIN outcomes :
          (\/ outcomes[i].kind \in {"raise", "None", "bool"}
           \/ ~stream /\ outcomes[i].kind \in {"nochoices", "emptychoices"})
              => TreatedAsFailed(i)
    /\ result.kind \notin {"None", "bool"}
    /\ ~stream => result.kind \in Successes

C16_Witness ==
    /\ stream
    /\ pc = "streaming"
    /\ result.kind = "Stream"
    /\ Len(outcomes) = 3
    /\ outcomes[1].kind = "bool"
    /\ outcomes[2].kind = "None"
    /\ sleeps = <<retry_delay, 2 * retry_delay>>

\* C17: in a non-streaming call, an attempt that returned a response whose
\* first choice has no message content is treated as failed, and the loop
\* does not return that response.
C17_MissingContentRetried ==
    ~stream =>
        /\ \A i \in DOMAIN outcomes :
              (outcomes[i].kind = "ModelResponse" /\ outcomes[i].content = <<>>)
                  => TreatedAsFailed(i)
        /\ result.kind = "ModelResponse" => result.content # <<>>

\* C18: when every attempt of a streaming call failed, consuming the stream
\* raises nothing and what it yielded holds the message of the last attempt's
\* error.
C18_StreamFailureCarriesLastError ==
    (pc = "consumed" /\ stream /\ AllFailed) =>
        /\ raised = "none"
        /\ Contains(full_response, AttemptError(outcomes[Len(outcomes)], TRUE))

C20_NoToolMarkerInSession ==
    /\ \A i \in DOMAIN messages :
          messages[i].role = "assistant"
              => ~Contains(messages[i].content, ToolMarkerPrefix)
    /\ \A i \in DOMAIN file.messages :
          JsonLoad(file.messages)[i].role = "assistant"
              => ~Contains(JsonLoad(file.messages)[i].content, ToolMarkerPrefix)

\* The save of the step reported a failure.
SaveFailed == io'.op = "add" /\ Count(io'.calls, "IOError") > 0

\* C21: a save that fails leaves a session file that held a record as it
\* was: the file still holds the last record saved.
C21_FailedSaveKeepsFile ==
    [][(Added /\ Persistent /\ SaveFailed /\ file.kind = "record")
          => file' = file]_vars

\* C22: an add_message on a list whose write fails raises nothing and leaves
\* the session usable: the list is the old one with the new message appended
\* and truncated, the snapshot ends with the new message, the write was
\* attempted once, and the add_message after a failed write attempts the
\* write again, saving the whole list when the disk works again.
C22_UnwritableDegrades ==
    [][/\ (Added /\ Persistent /\ disk # "ok") =>
            /\ SaveFailed
            /\ raised' = "none"
            /\ pc' = "idle"
            /\ messages' # <<>>
            /\ messages'[Len(messages')].timestamp = clock
            /\ messages' = TruncateMessages(
                   Append(messages, messages'[Len(messages')]), max_length)
            /\ LET snapshot == GetMessages(messages') IN
                  /\ Len(snapshot) = Len(messages')
                  /\ snapshot[Len(snapshot)].role = messages'[Len(messages')].role
                  /\ snapshot[Len(snapshot)].content
                         = messages'[Len(messages')].content
       /\ (Added /\ Persistent /\ Count(io.calls, "IOError") > 0) =>
            /\ Count(io'.calls, "write") = 1
            /\ disk = "ok" => file' = SessionData(messages', clock)]_vars

C22_Witness ==
    /\ Persistent
    /\ pc = "idle"
    /\ raised = "none"
    /\ disk = "readonly"
    /\ io = IO("add", <<"write", "IOError">>)
    /\ file.kind = "absent"
    /\ Len(messages) = 3
    /\ clock = MaxAdds + 1

\* handle() is between make_messages and the end of the turn.
InTurn == caller = "handle" /\ pc \in {"calling", "sleeping", "returned", "streaming"}

\* C23: the payload of a chat turn has, for each message of the list as
\* add_message left it, in the same order, its role and content and nothing
\* else, and its last element is the user's prompt, added at the start of
\* the turn.
C23_PayloadIsSnapshot ==
    InTurn =>
        /\ Len(payload) = Len(messages)
        /\ \A i \in DOMAIN payload :
              /\ DOMAIN payload[i] = {"role", "content"}
              /\ payload[i].role = messages[i].role
              /\ payload[i].content = messages[i].content
        /\ messages = TruncateMessages(
               Append(pre_messages, messages[Len(messages)]), max_length)
        /\ payload # <<>>
        /\ payload[Len(payload)].role = "user"
        /\ payload[Len(payload)].content \in {p \in Prompts : Strip(p) # <<>>}
        /\ messages[Len(messages)].timestamp = clock - 1

C23_Witness ==
    /\ InTurn
    /\ max_length = 3
    /\ Len(pre_messages) = 3
    /\ payload = <<[role |-> "system", content |-> SystemPrompt],
                   [role |-> "assistant", content |-> <<"r">>],
                   [role |-> "user", content |-> <<"a">>]>>

\* The retry loop is over and its last attempt did not fail.
Succeeded == LoopOver /\ outcomes # <<>> /\ ~Failed(outcomes[Len(outcomes)])

\* C25: when the retry loop ends with an attempt that did not fail, that
\* attempt is the first that did not fail and no later than attempt
\* max_retries, the sleeps so far are one per failed attempt, of
\* retry_delay * 2^i after attempt i, the result is what the attempt
\* returned, and no call or sleep is made after the loop ended.
C25_FirstSuccessSchedule ==
    [][/\ Succeeded' =>
            LET k == Len(outcomes') - 1 IN
            /\ k <= max_retries
            /\ \A i \in 1..k : Failed(outcomes'[i])
            /\ sleeps' = [i \in 1..k |-> retry_delay * Pow2(i - 1)]
            /\ result' = outcomes'[k + 1]
            /\ raised' = "none"
       /\ LoopOver =>
            \/ outcomes' = outcomes /\ sleeps' = sleeps /\ result' = result
            \/ pc' = "idle" /\ outcomes' = <<>> /\ sleeps' = <<>>]_vars

C25_Witness ==
    /\ pc = "returned"
    /\ retry_delay = MaxDelayBound
    /\ Len(outcomes) = 3
    /\ outcomes[1].kind = "raise"
    /\ outcomes[2].kind = "emptychoices"
    /\ outcomes[3] = [kind |-> "ModelResponse", content |-> <<"r">>]
    /\ result = outcomes[3]
    /\ sleeps = <<retry_delay, 2 * retry_delay>>

\* C26: when reading the stream raises, the generator ends, what its
\* consumer has concatenated is what it had before followed by the one
\* error text, no attempt and no sleep is added and nothing is raised; and
\* the consumption of a finite stream, once begun, comes to its end.
C26_StreamErrorEndsStream ==
    /\ [][(pc = "streaming" /\ stream_end' = "raise") =>
             /\ pc' = "consumed"
             /\ raised' = "none"
             /\ outcomes' = outcomes
             /\ sleeps' = sleeps
             /\ attempt' = attempt
             /\ chunks' = chunks
             /\ \E e \in TransportErrors :
                   full_response' = full_response \o StreamingErrorPrefix \o <<e>>]_vars
    /\ (pc = "streaming") ~> (pc = "consumed" /\ raised = "none")

C26_Witness ==
    /\ pc = "consumed"
    /\ stream_end = "raise"
    /\ Len(outcomes) = 1
    /\ sleeps = <<>>
    /\ chunks = 1
    /\ full_response = <<"r">> \o StreamingErrorPrefix \o <<"e1">>

\* Both processes are between operations and a save was made.
BothFinished ==
    /\ \A p \in Procs : procs[p].pc \in {"idle", "crashed"}
    /\ last_write # NoFile

\* C24: once both processes have finished, the session file holds exactly
\* the record of the save that wrote last.
C24_LastWriterWins == BothFinished => file = last_write

====
